---- MODULE Spec2Model ----
(***************************************************************************)
(* QuantumPod router (src/main.py): a Flask service that classifies a task *)
(* by its complexity, logs every decision in the `decisions` table and     *)
(* serves the log as JSON/HTML (/decisions) and as CSV (/log).             *)
(*                                                                         *)
(* Conventions of the model                                                *)
(*  - a float complexity is an integer number of hundredths (0.8 is 80);   *)
(*  - a text (task, header value) is a sequence of one-character strings,  *)
(*    so that escaping and comparison work on characters;                  *)
(*  - an instant is an integer tick of the wall clock; a datetime is its   *)
(*    wall-clock reading with a flag saying whether it carries a zone;     *)
(*  - an optional value is a record [some |-> BOOLEAN, val |-> ...];       *)
(*  - `resp` is the last response sent, together with the request that     *)
(*    produced it and the availability of the database during the call.    *)
(***************************************************************************)
EXTENDS Integers, Sequences, FiniteSets, TLC

VARIABLES
    proc,    \* "starting" | "running" | "crashed": the Python process
    dbUp,    \* whether the database behind `engine` can be reached
    clock,   \* the wall clock read by datetime.now(timezone.utc)
    store,   \* the rows of table `decisions`, in insertion (heap) order
    resp,    \* the last response, [op, req, dbAtCall, status, body]
    inflight,\* /route requests that built their record and have not committed
    config   \* [backend, tz]: scheme of DB_URL, UTC offset of the process zone

vars == <<proc, dbUp, clock, store, resp, inflight, config>>

-----------------------------------------------------------------------------
(* Bounds of the model *)

MaxRecords == 3
MaxClock == 2
MaxInflight == 2

(* Program constants *)

QuantumAbove == 80       \* complexity > 0.8
HybridAbove == 40        \* 0.4 < complexity
ClampLow == 0            \* max(0.0, ...)
ClampHigh == 100         \* min(1.0, ...)
DefaultComplexity == 50  \* data.get("complexity", 0.5)
DefaultLimit == 50       \* request.args.get("limit", "50")
FallbackLimit == 50      \* except ValueError: limit = 50
MinLimit == 1            \* max(1, ...)
MaxLimit == 200          \* min(200, ...)
UserAgentMax == 500      \* [:500]

VERSION == "alpha-2"

-----------------------------------------------------------------------------
(* Python helpers *)

\* min(a, b) and max(a, b) as Python computes them: the first argument wins
\* unless the second is strictly smaller (larger).
PyMin(a, b) == IF b < a THEN b ELSE a
PyMax(a, b) == IF b > a THEN b ELSE a

Unspecified == <<"u","n","s","p","e","c","i","f","i","e","d">>
NoneText == <<"N","o","n","e">>
RoutePath == <<"/","r","o","u","t","e">>

\* s[:n]
Prefix(s, n) == SubSeq(s, 1, PyMin(Len(s), n))

\* datetime.now(timezone.utc): an aware datetime, UTC wall-clock reading.
Now == [wall |-> clock, aware |-> TRUE]

\* Column ts, DateTime(timezone=True), as the driver returns it: sqlite keeps
\* the wall-clock digits only and returns a naive datetime; postgresql
\* returns an aware one.
LoadTs(ts) == [wall |-> ts, aware |-> config.backend # "sqlite"]

\* _iso(dt): dt.astimezone(timezone.utc).isoformat().  astimezone takes a
\* naive datetime as local time, so its instant is the reading minus the
\* UTC offset of the process zone.
_iso(dt) ==
    [instant |-> IF dt.aware THEN dt.wall ELSE dt.wall - config.tz, zone |-> "UTC"]

\* dt.isoformat(): the reading as it is, with an offset only when aware.
isoformat(dt) == [wall |-> dt.wall, offset |-> dt.aware]

Upper == <<"A","B","C","D","E","F","G","H","I","J","K","L","M",
           "N","O","P","Q","R","S","T","U","V","W","X","Y","Z">>
Lowercase == <<"a","b","c","d","e","f","g","h","i","j","k","l","m",
               "n","o","p","q","r","s","t","u","v","w","x","y","z">>

\* str.lower()
lower(s) ==
    [i \in 1..Len(s) |->
        IF \E k \in 1..Len(Upper) : Upper[k] = s[i]
        THEN Lowercase[CHOOSE k \in 1..Len(Upper) : Upper[k] = s[i]]
        ELSE s[i]]

_decide_ge(task, complexity) ==
    IF complexity >= QuantumAbove THEN "Quantum"
    ELSE IF HybridAbove < complexity /\ complexity <= QuantumAbove THEN "Hybrid"
    ELSE "Classical"

_decide(task, complexity) ==
    IF complexity > QuantumAbove THEN "Quantum"
    ELSE IF HybridAbove < complexity /\ complexity <= QuantumAbove THEN "Hybrid"
    ELSE "Classical"

\* str(data.get("task", "unspecified"))
TaskOf(field) ==
    CASE field.kind = "absent" -> Unspecified
      [] field.kind = "str"    -> field.val
      [] field.kind = "null"   -> NoneText

PyFloat_default(field) ==
    CASE field.kind = "absent" -> [exc |-> "none", val |-> DefaultComplexity]
      [] field.kind = "num"    -> [exc |-> "none", val |-> field.val]
      [] field.kind = "numstr" -> [exc |-> "none", val |-> field.val]
      [] field.kind = "bool"   -> [exc |-> "none", val |-> field.val]
      [] field.kind = "text"   -> [exc |-> "none", val |-> DefaultComplexity]
      [] field.kind = "null"   -> [exc |-> "none", val |-> DefaultComplexity]
      [] field.kind = "list"   -> [exc |-> "none", val |-> DefaultComplexity]
      [] field.kind = "huge"   -> [exc |-> "OverflowError", val |-> 0]

\* float(data.get("complexity", 0.5)): a JSON number, a numeric string and a
\* boolean convert; a non-numeric string raises ValueError; null and a list
\* raise TypeError; an integer too large for a double raises OverflowError.
PyFloat(field) ==
    CASE field.kind = "absent" -> [exc |-> "none", val |-> DefaultComplexity]
      [] field.kind = "num"    -> [exc |-> "none", val |-> field.val]
      [] field.kind = "numstr" -> [exc |-> "none", val |-> field.val]
      [] field.kind = "bool"   -> [exc |-> "none", val |-> field.val]
      [] field.kind = "text"   -> [exc |-> "ValueError", val |-> 0]
      [] field.kind = "null"   -> [exc |-> "TypeError", val |-> 0]
      [] field.kind = "list"   -> [exc |-> "TypeError", val |-> 0]
      [] field.kind = "huge"   -> [exc |-> "OverflowError", val |-> 0]

Clamp_low_only(complexity) == PyMax(ClampLow, complexity)

\* max(0.0, min(1.0, complexity))
Clamp(complexity) == PyMax(ClampLow, PyMin(ClampHigh, complexity))

\* request.headers.get("x-forwarded-for", request.remote_addr)
ClientIp(req) == IF req.xff.some THEN req.xff.val ELSE req.remote_addr

\* request.get_json(force=True) or {}: a falsy document counts as {}.
DataOf(body) ==
    IF body.kind = "falsy"
    THEN [task |-> [kind |-> "absent", val |-> <<>>],
          complexity |-> [kind |-> "absent", val |-> 0]]
    ELSE [task |-> body.task, complexity |-> body.complexity]

\* str(uuid.uuid4()): a fresh identifier, none of those in use.
uuid4(used) ==
    CHOOSE i \in 1..(Cardinality(used) + 1) :
        i \notin used /\ \A j \in 1..(i - 1) : j \in used

UsedIds == {store[i].id : i \in 1..Len(store)} \cup {f.entry.id : f \in inflight}

Persist_swallow(rows, entry, up) ==
    [ok |-> TRUE, rows |-> IF up THEN Append(rows, entry) ELSE rows]

\* with SessionLocal() as s: s.add(entry); s.commit()
\* The row is inserted, or the driver raises and nothing is written.
Persist(rows, entry, up) ==
    [ok |-> up, rows |-> IF up THEN Append(rows, entry) ELSE rows]

-----------------------------------------------------------------------------
(* Start-up and environment *)

NoResp == [op |-> "none", dbAtCall |-> TRUE, status |-> 0]

\* DB_URL: sqlite (the default) or postgresql ("postgres://" is rewritten);
\* the process zone is UTC or one tick behind it.
Configs ==
    {[backend |-> "sqlite", tz |-> 0],
     [backend |-> "sqlite", tz |-> -1],
     [backend |-> "postgresql", tz |-> 0]}

Init ==
    /\ proc = "starting"
    /\ dbUp \in BOOLEAN
    /\ clock = 0
    /\ store = <<>>
    /\ resp = NoResp
    /\ inflight = {}
    /\ config \in Configs

\* Module import: create_engine, then Base.metadata.create_all(engine), which
\* connects; when it raises the import fails and the process ends.
Startup ==
    /\ proc = "starting"
    /\ proc' = IF dbUp THEN "running" ELSE "crashed"
    /\ UNCHANGED <<dbUp, clock, store, resp, inflight, config>>

DbFail ==
    /\ proc = "running"
    /\ dbUp
    /\ dbUp' = FALSE
    /\ UNCHANGED <<proc, clock, store, resp, inflight, config>>

DbRecover ==
    /\ proc = "running"
    /\ ~dbUp
    /\ dbUp' = TRUE
    /\ UNCHANGED <<proc, clock, store, resp, inflight, config>>

TickTo(cap) ==
    /\ proc = "running"
    /\ clock < cap
    /\ clock' = clock + 1
    /\ UNCHANGED <<proc, dbUp, store, resp, inflight, config>>

Tick == TickTo(MaxClock)

-----------------------------------------------------------------------------
(* POST /route *)

\* Lines 89-109: the request is validated and the record is built, with the
\* clock read at line 102.  A rejected request is answered at once; the
\* others go on to the session of lines 110-112, which is database I/O with
\* no lock held, so other requests are served in between.
route_task(req) ==
    /\ proc = "running"
    /\ LET head == [op |-> "route", req |-> req, dbAtCall |-> dbUp] IN
       IF req.body.kind = "malformed"
       THEN \* get_json raises BadRequest
            /\ resp' = head @@ [status |-> 400, body |-> [error |-> "BadRequest"]]
            /\ inflight' = inflight
       ELSE IF req.body.kind = "array"
       THEN \* data.get: AttributeError, unhandled
            /\ resp' = head @@ [status |-> 500, body |-> [error |-> "AttributeError"]]
            /\ inflight' = inflight
       ELSE
         LET data == DataOf(req.body)
             task == TaskOf(data.task)
             parsed == PyFloat(data.complexity)
         IN
         IF parsed.exc \in {"TypeError", "ValueError"}
         THEN /\ resp' = head @@ [status |-> 400,
                    body |-> [error |-> "complexity must be a number 0..1"]]
              /\ inflight' = inflight
         ELSE IF parsed.exc # "none"
         THEN /\ resp' = head @@ [status |-> 500, body |-> [error |-> parsed.exc]]
              /\ inflight' = inflight
         ELSE
           LET complexity == Clamp(parsed.val)
               decision == _decide(task, complexity)
               entry == [id |-> uuid4(UsedIds),
                         ts |-> Now.wall,
                         task |-> task,
                         complexity |-> complexity,
                         decision |-> decision,
                         client_ip |-> ClientIp(req),
                         user_agent |-> Prefix(req.ua, UserAgentMax),
                         path |-> RoutePath]
           IN
           /\ inflight' = inflight \cup {[req |-> req, entry |-> entry]}
           /\ resp' = resp
    /\ UNCHANGED <<proc, dbUp, clock, store, config>>

\* Lines 110-120: the session adds and commits the record, and the response
\* is built from the entry, whose ts is still the aware datetime of line 102.
route_commit(f) ==
    /\ proc = "running"
    /\ f \in inflight
    /\ LET head == [op |-> "route", req |-> f.req, dbAtCall |-> dbUp]
           entry == f.entry
           done == Persist(store, entry, dbUp)
       IN
       /\ store' = done.rows
       /\ resp' = IF done.ok
                  THEN head @@ [status |-> 200,
                           body |-> [task |-> entry.task,
                                     complexity |-> entry.complexity,
                                     decision |-> entry.decision,
                                     id |-> entry.id,
                                     ts |-> _iso([wall |-> entry.ts, aware |-> TRUE])]]
                  ELSE head @@ [status |-> 500,
                           body |-> [error |-> "OperationalError"]]
    /\ inflight' = inflight \ {f}
    /\ UNCHANGED <<proc, dbUp, clock, config>>

-----------------------------------------------------------------------------
(* GET /health *)

health ==
    /\ proc = "running"
    /\ resp' = [op |-> "health", dbAtCall |-> dbUp, status |-> 200,
                body |-> [status |-> IF dbUp THEN "ok" ELSE "db_error: OperationalError",
                          version |-> VERSION,
                          db_url_scheme |-> config.backend,
                          decisions_logged |->
                              [some |-> dbUp, val |-> IF dbUp THEN Len(store) ELSE 0]]]
    /\ UNCHANGED <<proc, dbUp, clock, store, inflight, config>>

-----------------------------------------------------------------------------
(* The SQL engine *)

Reverse(rows) == [i \in 1..Len(rows) |-> rows[Len(rows) + 1 - i]]

\* A stable insertion of r into a sequence sorted by ts, newest first.
RECURSIVE InsertDesc(_, _)
InsertDesc(sorted, r) ==
    IF sorted = <<>> THEN <<r>>
    ELSE IF Head(sorted).ts >= r.ts
         THEN <<Head(sorted)>> \o InsertDesc(Tail(sorted), r)
         ELSE <<r>> \o sorted

RECURSIVE SortDesc(_)
SortDesc(rows) ==
    IF rows = <<>> THEN <<>>
    ELSE InsertDesc(SortDesc(SubSeq(rows, 1, Len(rows) - 1)), rows[Len(rows)])

\* ORDER BY ts DESC names no second key, so rows of equal ts come out in the
\* order in which the plan of that execution meets them: insertion order
\* (the index on task, then a sort) or its reverse (the index on ts read
\* backwards).  The engine picks the plan at each query from its statistics,
\* which change without any write by the service (ANALYZE, autovacuum).
ScanOrders == {"forward", "backward"}

OrderByTsDesc_drop_oldest(rows, scan) ==
    LET all == SortDesc(IF scan = "forward" THEN rows ELSE Reverse(rows))
    IN SubSeq(all, 1, Len(all) - 1)

\* q.order_by(Decision.ts.desc())
OrderByTsDesc(rows, scan) ==
    SortDesc(IF scan = "forward" THEN rows ELSE Reverse(rows))

\* q.limit(n)
Limit(rows, n) == SubSeq(rows, 1, PyMin(Len(rows), n))

-----------------------------------------------------------------------------
(* GET /decisions *)

EffectiveLimit_no_floor(arg) ==
    CASE arg.kind = "absent" -> PyMin(MaxLimit, DefaultLimit)
      [] arg.kind = "int"    -> PyMin(MaxLimit, arg.val)
      [] arg.kind = "text"   -> FallbackLimit

\* limit = request.args.get("limit", "50")
\* try: limit = max(1, min(200, int(limit)))  except ValueError: limit = 50
EffectiveLimit(arg) ==
    CASE arg.kind = "absent" -> PyMax(MinLimit, PyMin(MaxLimit, DefaultLimit))
      [] arg.kind = "int"    -> PyMax(MinLimit, PyMin(MaxLimit, arg.val))
      [] arg.kind = "text"   -> FallbackLimit

Json == <<"j","s","o","n">>
Html == <<"h","t","m","l">>

\* request.args.get("format", "json").lower()
FormatOf(arg) == lower(IF arg.some THEN arg.val ELSE Json)

\* if taskf: an absent or empty task parameter is falsy
TaskGiven(taskf) == taskf.some /\ taskf.val # <<>>

\* if taskf: q = q.filter(Decision.task == taskf)
FilterTask(rows, taskf) ==
    LET Same(r) == r.task = taskf.val
    IN IF TaskGiven(taskf) THEN SelectSeq(rows, Same) ELSE rows

\* if since: try: dt = datetime.fromisoformat(...); q = q.filter(Decision.ts >= dt)
\*           except Exception: pass
\* An empty value is falsy; a value that does not parse raises and is dropped.
\* A parsed value is an aware datetime, reading since.val at UTC offset
\* since.offset.  postgresql compares instants; sqlite compares the stored
\* digits with the digits of the parameter, whose offset is dropped.
FilterSince(rows, since) ==
    LET bound == IF config.backend = "sqlite" THEN since.val
                 ELSE since.val - since.offset
        After(r) == r.ts >= bound
    IN IF since.kind = "iso" THEN SelectSeq(rows, After) ELSE rows

Item(r) ==
    [ts |-> _iso(LoadTs(r.ts)), id |-> r.id, task |-> r.task,
     complexity |-> r.complexity, decision |-> r.decision,
     client_ip |-> r.client_ip]

Items(rows) == [i \in 1..Len(rows) |-> Item(rows[i])]

decisions(args, scan) ==
    /\ proc = "running"
    /\ LET head == [op |-> "decisions", req |-> args, dbAtCall |-> dbUp]
           limit == EffectiveLimit(args.limit)
           fmt == FormatOf(args.format)
           q == FilterSince(FilterTask(store, args.task), args.since)
           rows == Limit(OrderByTsDesc(q, scan), limit)
           items == Items(rows)
       IN
       resp' = IF ~dbUp
               THEN head @@ [status |-> 500, limit |-> limit,
                             body |-> [error |-> "OperationalError"]]
               ELSE head @@ [status |-> 200, limit |-> limit,
                             body |-> [kind |-> IF fmt = Html THEN "html" ELSE "json",
                                       count |-> Len(items),
                                       items |-> items]]
    /\ UNCHANGED <<proc, dbUp, clock, store, inflight, config>>

-----------------------------------------------------------------------------
(* GET /log *)

Quote == "\""

RECURSIVE Doubled(_)
Doubled(s) ==
    IF s = <<>> THEN <<>>
    ELSE (IF Head(s) = Quote THEN <<Quote, Quote>> ELSE <<Head(s)>>) \o Doubled(Tail(s))

\* esc(v): '"' + str(v).replace('"', '""') + '"'
esc(v) == <<Quote>> \o Doubled(v) \o <<Quote>>

cols == <<"ts", "id", "task", "complexity", "decision", "client_ip", "user_agent", "path">>

\* One yielded data row.  The values that hold no quote character (instant,
\* id, number, label) are kept as they are; the texts are escaped.
CsvRow(r) ==
    [ts |-> isoformat(LoadTs(r.ts)), id |-> r.id, task |-> esc(r.task),
     complexity |-> r.complexity, decision |-> r.decision,
     client_ip |-> esc(r.client_ip), user_agent |-> esc(r.user_agent),
     path |-> esc(r.path)]

CsvRows(rows) == [i \in 1..Len(rows) |-> CsvRow(rows[i])]

\* The generator yields the header, then opens a session and yields one row
\* per record; when the session cannot be opened the stream ends after the
\* header (the status line is already sent).
download_log(scan) ==
    /\ proc = "running"
    /\ LET rows == OrderByTsDesc(store, scan) IN
       resp' = [op |-> "log", dbAtCall |-> dbUp, status |-> 200,
                body |-> [mimetype |-> "text/csv",
                          header |-> cols,
                          rows |-> IF dbUp THEN CsvRows(rows) ELSE <<>>]]
    /\ UNCHANGED <<proc, dbUp, clock, store, inflight, config>>

-----------------------------------------------------------------------------
(* Requests *)

NoTask == [kind |-> "absent", val |-> <<>>]
NoComplexity == [kind |-> "absent", val |-> 0]

Object(task, complexity) == [kind |-> "object", task |-> task, complexity |-> complexity]
Document(kind) == [kind |-> kind, task |-> NoTask, complexity |-> NoComplexity]

Request(body) ==
    [body |-> body, xff |-> [some |-> FALSE, val |-> <<>>],
     ua |-> <<"c","u","r","l">>, remote_addr |-> <<"1">>]

Forwarded(body) ==
    [body |-> body, xff |-> [some |-> TRUE, val |-> <<"9">>],
     ua |-> <<>>, remote_addr |-> <<"1">>]

Str(text) == [kind |-> "str", val |-> text]
Num(n) == [kind |-> "num", val |-> n]

\* The complexity fields sent to /route: absent, in and out of range, a
\* numeric string, a boolean, and the values float() rejects.
ComplexityFields ==
    {NoComplexity, Num(-500), Num(150),
     [kind |-> "numstr", val |-> 80], [kind |-> "bool", val |-> 100],
     [kind |-> "text", val |-> 0], [kind |-> "null", val |-> 0],
     [kind |-> "list", val |-> 0], [kind |-> "huge", val |-> 0]}

RouteReqs ==
    {Request(Object(NoTask, c)) : c \in ComplexityFields}
    \cup {Forwarded(Object(Str(<<"a">>), Num(41))),
          Request(Object([kind |-> "null", val |-> <<>>], Num(80))),
          Request(Document("falsy")), Request(Document("array")),
          Request(Document("malformed"))}

DefaultReq == Request(Object(NoTask, NoComplexity))

NoLimit == [kind |-> "absent", val |-> 0]
NoFormat == [some |-> FALSE, val |-> <<>>]
NoTaskFilter == [some |-> FALSE, val |-> <<>>]
NoSince == [kind |-> "absent", val |-> 0, offset |-> 0]

DefaultArgs ==
    [limit |-> NoLimit, format |-> NoFormat, task |-> NoTaskFilter, since |-> NoSince]

-----------------------------------------------------------------------------
(* The service: every operation, with the requests above *)

\* POST /route, with at most `flights` requests between their clock reading
\* and their commit, and at most `cap` records written or about to be.
Route(reqs, cap, flights) ==
    /\ Len(store) + Cardinality(inflight) < cap
    /\ Cardinality(inflight) < flights
    /\ \E req \in reqs : route_task(req)

Commit == \E f \in inflight : route_commit(f)

Decisions(argsets) == \E args \in argsets, scan \in ScanOrders : decisions(args, scan)

DownloadLog == \E scan \in ScanOrders : download_log(scan)

\* The wall clock stands still here; SpecQuery and SpecLog let it advance.
Next ==
    \/ Startup
    \/ DbFail
    \/ DbRecover
    \/ Route(RouteReqs, MaxRecords - 1, MaxInflight - 1)
    \/ Commit
    \/ health
    \/ Decisions({DefaultArgs})
    \/ DownloadLog

Spec == Init /\ [][Next]_vars

-----------------------------------------------------------------------------
(* Properties of POST /route and GET /health, under Spec *)

Rows == {store[i] : i \in 1..Len(store)}

\* The complexity field of the request behind the last /route response.
SentComplexity == DataOf(resp.req.body).complexity

IsDocument == resp.req.body.kind \in {"object", "falsy"}

\* C2: every persisted record has a complexity within [0.0, 1.0] and the
\* decision the policy gives for that stored complexity; an input of 1.5 is
\* stored as 1.0 with Quantum, an input of -5 as 0.0 with Classical.
C2_StoredClampedAndConsistent ==
    /\ \A r \in Rows :
          /\ 0 <= r.complexity /\ r.complexity <= 100
          /\ r.decision = (IF r.complexity > 80 THEN "Quantum"
                           ELSE IF r.complexity > 40 THEN "Hybrid"
                           ELSE "Classical")
    /\ (resp.op = "route" /\ resp.status = 200 /\ SentComplexity.kind = "num") =>
          \E r \in Rows :
             /\ r.id = resp.body.id
             /\ r.complexity = resp.body.complexity
             /\ r.decision = resp.body.decision
             /\ (SentComplexity.val > 100 => r.complexity = 100 /\ r.decision = "Quantum")
             /\ (SentComplexity.val < 0 => r.complexity = 0 /\ r.decision = "Classical")
             /\ (SentComplexity.val \in 0..100 => r.complexity = SentComplexity.val)

C2_Witness ==
    /\ resp.op = "route" /\ resp.status = 200
    /\ SentComplexity = Num(150)
    /\ \E r \in Rows : r.complexity = 0 /\ r.decision = "Classical"
    /\ \E r \in Rows : r.id = resp.body.id /\ r.complexity = 100 /\ r.decision = "Quantum"

Unparseable == IsDocument /\ SentComplexity.kind \in {"text", "null", "list"}

\* C3: a /route request whose complexity is present but is no number is
\* answered 400 and writes nothing: the store is the same after the call as
\* before.  No default is substituted, unlike an absent field, which is
\* routed with complexity 0.5.
C3_InvalidComplexityRejected ==
    [][ /\ (resp'.op = "route" /\ resp'.req.body.kind \in {"object", "falsy"}
              /\ DataOf(resp'.req.body).complexity.kind \in {"text", "null", "list"})
           => /\ resp'.status = 400
              /\ resp'.body = [error |-> "complexity must be a number 0..1"]
              /\ store' = store
        /\ (resp'.op = "route" /\ resp'.req.body.kind \in {"object", "falsy"}
              /\ DataOf(resp'.req.body).complexity.kind = "absent" /\ resp'.dbAtCall)
           => /\ resp'.status = 200
              /\ resp'.body.complexity = 50
      ]_vars

C3_Witness ==
    /\ resp.op = "route" /\ resp.status = 400
    /\ Unparseable /\ SentComplexity.kind = "text"
    /\ resp.dbAtCall
    /\ Len(store) = 1
    /\ inflight = {}

\* C4: a success response of /route carries the id of a record that is in the
\* store, with the fields the response shows; a call made while the store is
\* unavailable never returns the success body, and a request that passed
\* validation is then answered with a server error.
C4_AcknowledgedIsStored ==
    /\ (resp.op = "route" /\ resp.status = 200) =>
          \E r \in Rows :
             /\ r.id = resp.body.id
             /\ r.task = resp.body.task
             /\ r.complexity = resp.body.complexity
             /\ r.decision = resp.body.decision
    /\ (resp.op = "route" /\ ~resp.dbAtCall) =>
          /\ resp.status # 200
          /\ (IsDocument /\ PyFloat(SentComplexity).exc = "none") => resp.status = 500

C4_Witness ==
    /\ resp.op = "route" /\ ~resp.dbAtCall /\ resp.status = 500
    /\ IsDocument /\ SentComplexity.kind = "num"
    /\ Len(store) = 1

\* C8: an unreachable store is never fatal to the process, at start-up or
\* later, and /health then answers with a degraded status that names the
\* failure class and with decisions_logged null.
C8_StoreOutageNotFatal ==
    /\ proc # "crashed"
    /\ (resp.op = "health" /\ ~resp.dbAtCall) =>
          /\ resp.status = 200
          /\ resp.body.status = "db_error: OperationalError"
          /\ ~resp.body.decisions_logged.some

-----------------------------------------------------------------------------
(* The policy function on its own: every complexity of [0.0, 1.0], in
   hundredths, with several tasks *)

PolicyTasks == {Unspecified, <<"a">>, <<>>}

InitDecide ==
    /\ proc = "running"
    /\ dbUp = TRUE
    /\ clock = 0
    /\ store = <<>>
    /\ inflight = {}
    /\ config \in Configs
    /\ resp \in {[op |-> "call", dbAtCall |-> TRUE, status |-> 0,
                  task |-> t, complexity |-> c, ret |-> ""] :
                 t \in PolicyTasks, c \in ClampLow..ClampHigh}

DecideCall ==
    /\ resp.op = "call"
    /\ resp' = [resp EXCEPT !.op = "_decide",
                            !.ret = _decide(resp.task, resp.complexity)]
    /\ UNCHANGED <<proc, dbUp, clock, store, inflight, config>>

NextDecide == DecideCall

SpecDecide == InitDecide /\ [][NextDecide]_vars

\* C1: for every complexity in [0.0, 1.0] the policy returns Quantum iff
\* c > 0.8, Hybrid iff 0.4 < c <= 0.8 and Classical iff c <= 0.4, whatever
\* the task; 0.0 and 0.4 give Classical, 0.8 Hybrid, 1.0 Quantum; the label
\* is one of the three.
C1_DecideBands ==
    resp.op = "_decide" =>
        LET c == resp.complexity
            d == resp.ret
        IN /\ d \in {"Quantum", "Hybrid", "Classical"}
           /\ (d = "Quantum" <=> c > 80)
           /\ (d = "Hybrid" <=> (40 < c /\ c <= 80))
           /\ (d = "Classical" <=> c <= 40)
           /\ (c \in {0, 40} => d = "Classical")
           /\ (c = 80 => d = "Hybrid")
           /\ (c = 100 => d = "Quantum")

C1_Witness ==
    /\ resp.op = "_decide"
    /\ resp.complexity = 80
    /\ resp.ret = "Hybrid"
    /\ resp.task = <<"a">>

-----------------------------------------------------------------------------
(* GET /decisions with filters: records of two tasks, written while the
   clock advances or stands still *)

QueryReqs ==
    {Request(Object(Str(<<>>), NoComplexity)),
     Request(Object(Str(<<"a">>), NoComplexity))}

IntArg(n) == [kind |-> "int", val |-> n]
\* since=<reading t at UTC offset o>: the instant t - o.
Iso(t, o) == [kind |-> "iso", val |-> t, offset |-> o]
Given(v) == [some |-> TRUE, val |-> v]

QueryArgs ==
    {[limit |-> IntArg(2), format |-> NoFormat, task |-> t, since |-> s] :
        t \in {NoTaskFilter, Given(<<"a">>)},
        s \in {NoSince, Iso(1, 0), Iso(2, 1)}}
    \cup {DefaultArgs,
          [DefaultArgs EXCEPT !.format = Given(<<"H","T","M","L">>)],
          [DefaultArgs EXCEPT !.format = Given(<<"H","t","m","l">>)],
          [DefaultArgs EXCEPT !.format = Given(<<"J","S","O","N">>)],
          [DefaultArgs EXCEPT !.task = Given(<<>>)],
          [DefaultArgs EXCEPT !.task = Given(<<"b">>)],
          [DefaultArgs EXCEPT !.since = [kind |-> "bad", val |-> 0, offset |-> 0]],
          [DefaultArgs EXCEPT !.since = [kind |-> "empty", val |-> 0, offset |-> 0]],
          [DefaultArgs EXCEPT !.since = Iso(1, -1)],
          [DefaultArgs EXCEPT !.limit = IntArg(1)]}

NextQuery ==
    \/ Startup
    \/ Tick
    \/ Route(QueryReqs, MaxRecords, MaxInflight)
    \/ Commit
    \/ Decisions(QueryArgs)

SpecQuery == Init /\ [][NextQuery]_vars

Min(a, b) == IF a <= b THEN a ELSE b

\* The last /decisions response lists exactly the records of M, newest
\* first, cut to the newest `limit` of them.
ListsNewestOf(M) ==
    LET items == resp.body.items
        n == Len(items)
        Rec(k) == CHOOSE r \in Rows : r.id = items[k].id
    IN /\ n = Min(resp.limit, Cardinality(M))
       /\ resp.body.count = n
       /\ \A k \in 1..n : \E r \in M :
             /\ items[k].id = r.id
             /\ items[k].task = r.task
             /\ items[k].complexity = r.complexity
             /\ items[k].decision = r.decision
       /\ \A j, k \in 1..n : j < k =>
             /\ items[j].id # items[k].id
             /\ Rec(j).ts >= Rec(k).ts
       /\ \A r \in M : (\A k \in 1..n : items[k].id # r.id) =>
             \A k \in 1..n : Rec(k).ts >= r.ts

\* The records a request asks for: those of the given task, an empty task
\* parameter counting as none given, written at or after the since instant.
\* A record's ts is the UTC reading of its instant.
Matches(args) ==
    {r \in Rows :
        /\ (args.task.some /\ args.task.val # <<>> => r.task = args.task.val)
        /\ (args.since.kind = "iso" => r.ts >= args.since.val - args.since.offset)}

\* C9: /decisions returns exactly the records whose task equals the given
\* task string and whose timestamp is at least the given since instant,
\* newest first, cut to the newest `limit`, with count the number of items; a
\* since that is no ISO-8601 instant is ignored.
C9_FiltersAsStated ==
    (resp.op = "decisions" /\ resp.status = 200) =>
        ListsNewestOf(Matches(resp.req))

-----------------------------------------------------------------------------
(* GET /decisions with every kind of limit parameter *)

LimitArgs ==
    {[DefaultArgs EXCEPT !.limit = l] :
        l \in {NoLimit, [kind |-> "text", val |-> 0],
               IntArg(-1), IntArg(0), IntArg(1), IntArg(2), IntArg(3),
               IntArg(200), IntArg(201)}}

NextLimit ==
    \/ Startup
    \/ DbFail
    \/ DbRecover
    \/ Route({DefaultReq}, MaxRecords, MaxInflight)
    \/ Commit
    \/ Decisions(LimitArgs)

SpecLimit == Init /\ [][NextLimit]_vars

\* C10: the effective limit is 50 when the parameter is absent or is no
\* number, and otherwise the given integer clamped into [1, 200]; no more
\* items than the effective limit are returned, and the request does not fail
\* because of the parameter.
C10_EffectiveLimit ==
    resp.op = "decisions" =>
        LET given == resp.req.limit
            expected == IF given.kind \in {"absent", "text"} THEN 50
                        ELSE IF given.val < 1 THEN 1
                        ELSE IF given.val > 200 THEN 200
                        ELSE given.val
        IN /\ resp.limit = expected
           /\ resp.dbAtCall =>
                 /\ resp.status = 200
                 /\ Len(resp.body.items) <= expected
                 /\ Len(resp.body.items) = Min(expected, Len(store))

C10_Witness ==
    /\ resp.op = "decisions" /\ resp.status = 200
    /\ resp.req.limit = IntArg(0)
    /\ Len(store) = 3
    /\ Len(resp.body.items) = 1

-----------------------------------------------------------------------------
(* GET /log: records whose task holds a quote or a comma *)

LogReqs ==
    {Request(Object(Str(<<"\"">>), NoComplexity)),
     Forwarded(Object(Str(<<",">>), NoComplexity))}

NextLog ==
    \/ Startup
    \/ Tick
    \/ Route(LogReqs, MaxRecords, MaxInflight)
    \/ Commit
    \/ DownloadLog

SpecLog == Init /\ [][NextLog]_vars

\* C7: the CSV of /log is one header row followed by exactly count() data
\* rows, one for each persisted record and none repeated, newest first,
\* whatever the order in which the records were committed.
C7_LogComplete ==
    (resp.op = "log" /\ resp.dbAtCall) =>
        LET rows == resp.body.rows
            n == Len(rows)
        IN /\ resp.status = 200
           /\ resp.body.header =
                <<"ts", "id", "task", "complexity", "decision", "client_ip",
                  "user_agent", "path">>
           /\ n = Len(store)
           /\ \A r \in Rows : \E k \in 1..n :
                 rows[k].id = r.id /\ rows[k].ts.wall = r.ts
           /\ \A j, k \in 1..n : j < k =>
                 /\ rows[j].id # rows[k].id
                 /\ rows[j].ts.wall >= rows[k].ts.wall

C7_Witness ==
    /\ resp.op = "log" /\ resp.dbAtCall
    /\ Len(store) = 3
    /\ Len(resp.body.rows) = 3
    /\ store[1].ts > store[2].ts
    /\ resp.body.rows[1].ts.wall = resp.body.rows[2].ts.wall
    /\ resp.body.rows[2].ts.wall > resp.body.rows[3].ts.wall
    /\ resp.body.rows[3].task = <<"\"", "\"", "\"", "\"">>

-----------------------------------------------------------------------------
(* Repeated reads of /decisions with a task filter: records of two tasks,
   some of equal ts, more of them than the limit *)

RepeatArgs ==
    {[DefaultArgs EXCEPT !.limit = IntArg(1), !.task = Given(<<"a">>)],
     [DefaultArgs EXCEPT !.limit = IntArg(2), !.task = Given(<<"a">>)]}

NextRepeat ==
    \/ Startup
    \/ Tick
    \/ Route(QueryReqs, MaxRecords, MaxInflight - 1)
    \/ Commit
    \/ Decisions(RepeatArgs)

SpecRepeat == Init /\ [][NextRepeat]_vars

\* C6: two /decisions calls with the same parameters and no /route answered
\* between them return the same items in the same order, also when records
\* have equal ts and more records match than the limit admits.
C6_RepeatedReadSameItems ==
    [][ (/\ resp.op = "decisions" /\ resp.status = 200
         /\ resp'.op = "decisions" /\ resp'.status = 200
         /\ resp'.req = resp.req)
        => resp'.body.items = resp.body.items ]_vars

-----------------------------------------------------------------------------
(* A long log: default requests only, up to one record more than the default
   limit of /decisions.  Every request reads a clock value of its own, and
   the first one is slow: the others are served, one at a time, between its
   clock reading and its commit. *)

BulkTick ==
    /\ clock < Len(store) + Cardinality(inflight)
    /\ TickTo(DefaultLimit + 1)

BulkRoute ==
    /\ clock = Len(store) + Cardinality(inflight)
    /\ \A f \in inflight : f.entry.ts = 0
    /\ Route({DefaultReq}, DefaultLimit + 1, MaxInflight)

NextBulk ==
    \/ Startup
    \/ BulkTick
    \/ BulkRoute
    \/ Commit
    \/ Decisions({DefaultArgs})

SpecBulk == Init /\ [][NextBulk]_vars

\* C5: a record written by a successful /route appears in the items of a
\* following /decisions with default parameters, with the id, task, decision
\* and complexity the /route response returned, whatever was written before.
C5_RouteThenListed ==
    [][ (/\ resp.op = "route" /\ resp.status = 200
         /\ resp'.op = "decisions" /\ resp'.status = 200
         /\ resp'.req = DefaultArgs)
        => \E k \in 1..Len(resp'.body.items) :
              /\ resp'.body.items[k].id = resp.body.id
              /\ resp'.body.items[k].task = resp.body.task
              /\ resp'.body.items[k].decision = resp.body.decision
              /\ resp'.body.items[k].complexity = resp.body.complexity ]_vars

====
